---- MODULE Spec2Model ----
(***************************************************************************)
(* A model of egui_memory_editor's MemoryEditor<T> (src/src/lib.rs): the   *)
(* builder calls, the address range registry, and one render frame of      *)
(* draw_viewer_contents with the calls it makes to the read function.       *)
(*                                                                         *)
(* Strings are sequences of character codes, compared as Rust compares     *)
(* String (lexicographically), because the registry is a BTreeMap keyed by *)
(* String and its iteration order decides the selected range.              *)
(***************************************************************************)
EXTENDS Integers, Sequences, FiniteSets, TLC

\* ------------------------------------------------------------------ bounds
\* At most this many distinct names are registered.
MaxRanges == 2
\* The viewport shows at most this many lines of the grid.
MaxVisibleLines == 2
\* Address ranges of the geometry specification end at or before MaxEnd.
MaxEnd == 18

\* ------------------------------------------------------- program constants
\* columns are emitted in chunks of 8 (lib.rs:138-140)
ChunkColumns == 8
\* the column dragger's range is 1.0..=64.0 (lib.rs:226)
MinColumns == 1
MaxColumns == 64
\* `*column_count as u8` keeps the value modulo 2^8 (lib.rs:225)
U8Modulus == 256
\* printable ASCII is [32, 128) (lib.rs:175)
AsciiLow == 32
AsciiHigh == 128

\* ------------------------------------------------------------------ values
\* Range names: "", "a", "b" as character codes (a = 1, b = 2).
Names == {<< >>, <<1>>, <<2>>}
\* Window titles: the default one and one set by the embedder.
DefaultTitle == "Memory Editor"
Titles == {DefaultTitle, "RAM view"}

\* Range<usize> { start, end }
Range(s, e) == [start |-> s, end |-> e]
\* The ranges the embedder registers in the builder specification.
BuilderRanges == {Range(0, 4), Range(5, 7)}
\* The ranges of the geometry specification (empty and inverted ones too).
GeometryRanges ==
    {Range(s, e) : s \in {0, 5}, e \in {0, 1, 7, 16, 17, MaxEnd}}

\* column_count values the user can drag to, all within 1.0..=64.0
DragValues == {3}
\* column_count values an options bundle passed to with_options can hold
BundleColumns == {0, 3, 259}
\* column_count values of the geometry specification
GeometryColumns == {1, 3, 8, 9, 17, 64}
\* values the user can type into a cell
EditValues == {255}

HexChars == <<"0", "1", "2", "3", "4", "5", "6", "7",
              "8", "9", "A", "B", "C", "D", "E", "F">>

\* ------------------------------------------------------------ pure helpers
\* String's Ord: lexicographic comparison, a proper prefix sorts first.
RECURSIVE StrLess(_, _)
StrLess(a, b) ==
    IF b = << >> THEN FALSE
    ELSE IF a = << >> THEN TRUE
    ELSE IF Head(a) # Head(b) THEN Head(a) < Head(b)
    ELSE StrLess(Tail(a), Tail(b))

\* address_ranges.iter().next(): the entry with the smallest key (lib.rs:278)
FirstKey(ranges) ==
    CHOOSE k \in DOMAIN ranges : \A j \in DOMAIN ranges : j = k \/ StrLess(k, j)

\* BTreeMap::insert: adds the key or replaces its value (lib.rs:276)
Insert(ranges, name, range) ==
    [k \in DOMAIN ranges \cup {name} |-> IF k = name THEN range ELSE ranges[k]]

\* Range<usize>::len(): 0 for an empty or inverted range (lib.rs:123)
RangeLen(r) == IF r.end > r.start THEN r.end - r.start ELSE 0

\* a containment test that is off by one at the end of the range
ContainsInclusiveEnd(r, a) == r.start <= a /\ a <= r.end

\* Range<usize>::contains (lib.rs:144, lib.rs:170)
Contains(r, a) == r.start <= a /\ a < r.end

\* num::Integer::div_ceil for unsigned integers, b > 0 (lib.rs:123, lib.rs:138)
DivCeil(a, b) == IF a % b = 0 THEN a \div b ELSE (a \div b) + 1

Min(a, b) == IF a < b THEN a ELSE b

\* format!("{:X}", n): uppercase hex, no padding (lib.rs:121)
RECURSIVE HexDigits(_)
HexDigits(n) ==
    IF n < 16 THEN <<HexChars[n + 1]>>
    ELSE HexDigits(n \div 16) \o <<HexChars[(n % 16) + 1]>>

\* format!("{:01$X}", n, width): hex, zero-padded to at least width characters
\* (lib.rs:135); format!("{:02X}", v) is FormatHex(v, 2) (lib.rs:156)
FormatHex(n, width) ==
    LET d == HexDigits(n)
    IN  IF Len(d) >= width THEN d
        ELSE [i \in 1..(width - Len(d)) |-> "0"] \o d

\* a label width taken from the last address of the range, not from its end
AddressCharactersOfLast(address_space) ==
    Len(HexDigits(IF address_space.end > 0 THEN address_space.end - 1 ELSE 0))

\* let address_characters = format!("{:X}", address_space.end).chars().count()
\* (lib.rs:121)
AddressCharacters(address_space) == Len(HexDigits(address_space.end))

\* the address label of a row: format!("0x{:01$X}", start_address,
\* address_characters) (lib.rs:135)
AddressLabel(start_address, address_characters) ==
    <<"0", "x">> \o FormatHex(start_address, address_characters)

\* let max_lines = address_space.len().div_ceil(column_count) (lib.rs:123)
MaxLines(address_space, column_count) ==
    DivCeil(RangeLen(address_space), column_count)

\* the character of the ASCII sidebar, as its code; 46 is '.' (lib.rs:175)
AsciiChar(mem_val) ==
    IF mem_val < AsciiLow \/ mem_val >= AsciiHigh THEN 46 ELSE mem_val

\* the caller's accessors over a byte array that applies writes at once
read_function(mem, address) == mem[address]
write_function_call(mem, address, value) == [mem EXCEPT ![address] = value]

\* ------------------------------------------------------------------- state
VARIABLES
    window_name,     \* String
    write_function,  \* Option<WriteFunction<T>>: "None" or "Some"
    address_ranges,  \* BTreeMap<String, Range<usize>>
    read_only,       \* bool
    options,         \* MemoryEditorOptions (the fields lib.rs uses)
    memory,          \* the caller's T, a byte array
    pc,              \* "ready", or "panicked" once a render call aborted
    first_added,     \* history: the name of the first with_address_range call
    pure,            \* history: only with_address_range calls with distinct
                     \* names were made so far (other than setting the title,
                     \* the write function or read_only), and no frame
    trace,           \* what the last call did: the frame's rows, reads, writes
    prev             \* the frame before it, when this frame repeated it

vars == <<window_name, write_function, address_ranges, read_only, options,
          memory, pc, first_added, pure, trace, prev>>

\* MemoryEditorOptions: the fields of option_data that lib.rs reads or writes
MemoryEditorOptions(columns) ==
    [selected_address_range : Names,
     combo_box_enabled : BOOLEAN,
     column_count : columns,
     show_ascii_sidebar : BOOLEAN]

\* Default::default() of MemoryEditorOptions: its values are set outside
\* lib.rs; any bundle with a column count the dragger accepts
DefaultOptions == MemoryEditorOptions(DragValues)

\* the byte array behind read_function: 0 at address 0, printable and
\* unprintable bytes after it
MemoryImage == [a \in 0..MaxEnd |-> (a * 37) % U8Modulus]

\* ------------------------------------------------------------ one frame
NoUi == [kind |-> "none", name |-> << >>, value |-> 0, address |-> 0]
NoTrace ==
    [status |-> "none", options |-> << >>, address_space |-> << >>,
     max_lines |-> 0, line_range |-> << >>, rows |-> << >>, reads |-> << >>,
     writes |-> << >>, ui |-> NoUi]

\* the interactions draw_options_area offers in one frame (lib.rs:216-235):
\* the region picker lists the registered names when it is enabled, the
\* dragger yields a value in 1.0..=64.0, the ASCII checkbox toggles
OptionsUi(opts, ranges) ==
    {NoUi}
    \cup {[NoUi EXCEPT !.kind = "select", !.name = n] :
            n \in IF opts.combo_box_enabled THEN DOMAIN ranges ELSE {}}
    \cup {[NoUi EXCEPT !.kind = "drag", !.value = c] :
            c \in DragValues \cap (MinColumns..MaxColumns)}
    \cup {[NoUi EXCEPT !.kind = "ascii"]}

\* draw_options_area (lib.rs:191-238)
DrawOptionsArea(opts, ranges, ui) ==
    LET columns == opts.column_count % U8Modulus
    IN  [selected_address_range |->
            IF opts.combo_box_enabled /\ ui.kind = "select"
               /\ ui.name \in DOMAIN ranges
            THEN ui.name ELSE opts.selected_address_range,
         combo_box_enabled |-> opts.combo_box_enabled,
         column_count |-> IF ui.kind = "drag" THEN ui.value ELSE columns,
         show_ascii_sidebar |->
            IF ui.kind = "ascii" THEN ~opts.show_ascii_sidebar
            ELSE opts.show_ascii_sidebar]

\* entry checks that forget the write function
EntryChecksRegistryOnly(ranges, wf, ro) == Cardinality(DOMAIN ranges) > 0

\* the two assertions at the entry of draw_viewer_contents (lib.rs:88-89)
EntryChecksPass(ranges, wf, ro) ==
    /\ Cardinality(DOMAIN ranges) > 0
    /\ (wf = "Some" \/ ro)

\* the line ranges ClippedScrollArea::show hands to the closure (lib.rs:125):
\* a window of the viewport's height clamped to [0, max_lines)
LineRanges(max_lines) ==
    {w \in (0..max_lines) \X (0..max_lines) :
        \/ w = <<0, 0>>
        \/ w[1] < w[2] /\ w[2] - w[1] <= MaxVisibleLines}

\* the inner loop over one ui.columns call: cells from start_address on, up
\* to `columns` of them, stopping at the first address outside the range
\* (lib.rs:141-157, lib.rs:168-177)
RECURSIVE ChunkCells(_, _, _, _)
ChunkCells(address_space, start_address, columns, i) ==
    IF i >= columns \/ ~Contains(address_space, start_address + i) THEN << >>
    ELSE <<start_address + i>>
         \o ChunkCells(address_space, start_address, columns, i + 1)

\* a chunk width that is always 8, also for the last chunk
ChunkWidthFull(column_count, grid_column) == ChunkColumns

\* the width of chunk grid_column: (*column_count - 8 * grid_column).min(8)
\* (lib.rs:139)
ChunkWidth(column_count, grid_column) ==
    Min(column_count - ChunkColumns * grid_column, ChunkColumns)

\* the hex cells of one row: for grid_column in 0..column_count.div_ceil(&8)
\* (lib.rs:138-159)
RECURSIVE HexCells(_, _, _, _)
HexCells(address_space, start_address, column_count, grid_column) ==
    IF grid_column >= DivCeil(column_count, ChunkColumns) THEN << >>
    ELSE ChunkCells(address_space, start_address + ChunkColumns * grid_column,
                    ChunkWidth(column_count, grid_column), 0)
         \o HexCells(address_space, start_address, column_count,
                     grid_column + 1)

\* a sidebar that reads nothing
AsciiCellsNone(address_space, start_address, opts) == << >>

\* the cells of the ASCII sidebar of one row (lib.rs:162-180)
AsciiCells(address_space, start_address, opts) ==
    IF opts.show_ascii_sidebar
    THEN ChunkCells(address_space, start_address, opts.column_count, 0)
    ELSE << >>

\* one row of the grid (lib.rs:133-182): its label, the hex cells and the
\* ASCII cells, each with the value read_function returned for it
Row(address_space, opts, start_row, mem) ==
    LET start_address == address_space.start + start_row * opts.column_count
        hex == HexCells(address_space, start_address, opts.column_count, 0)
        ascii == AsciiCells(address_space, start_address, opts)
    IN  [label |-> AddressLabel(start_address,
                                AddressCharacters(address_space)),
         hex |-> [i \in 1..Len(hex) |->
                    LET mem_val == read_function(mem, hex[i])
                    IN  [address |-> hex[i],
                         text |-> FormatHex(mem_val, 2)]],
         ascii |-> [i \in 1..Len(ascii) |->
                    [address |-> ascii[i],
                     character |-> AsciiChar(read_function(mem, ascii[i]))]]]

\* the addresses one row passes to read_function, in call order
RowReads(row) ==
    [i \in 1..Len(row.hex) |-> row.hex[i].address]
    \o [i \in 1..Len(row.ascii) |-> row.ascii[i].address]

\* for start_row in line_range (lib.rs:133)
Rows(address_space, opts, line_range, mem) ==
    [k \in 1..(line_range[2] - line_range[1]) |->
        Row(address_space, opts, line_range[1] + k - 1, mem)]

RECURSIVE Flatten(_)
Flatten(seqs) == IF seqs = << >> THEN << >> ELSE Head(seqs) \o Flatten(Tail(seqs))

\* every read_function call of the frame, in call order
FrameReads(rows) == Flatten([k \in 1..Len(rows) |-> RowReads(rows[k])])

\* the addresses of the hex cells the frame shows
VisibleAddresses(rows) ==
    UNION {{rows[k].hex[i].address : i \in 1..Len(rows[k].hex)} :
            k \in 1..Len(rows)}

\* the edits the user can attempt in a frame: a visible cell and a new value
CellUi(rows) ==
    {[NoUi EXCEPT !.kind = "edit", !.address = a, !.value = v] :
        a \in VisibleAddresses(rows), v \in EditValues}

\* a write path that writes every edit, read_only or not
WriteCallsOnEdit(ui, ro, wf) ==
    IF ui.kind = "edit" THEN <<[address |-> ui.address, value |-> ui.value]>>
    ELSE << >>

\* the write_function calls of a frame: every cell is drawn as a Label and
\* no statement of draw_viewer_contents calls write_function (lib.rs:138-158)
WriteCalls(ui, ro, wf) == << >>

\* the caller's memory after the frame's write_function calls
RECURSIVE ApplyWrites(_, _)
ApplyWrites(mem, writes) ==
    IF writes = << >> THEN mem
    ELSE ApplyWrites(write_function_call(mem, Head(writes).address,
                                         Head(writes).value), Tail(writes))

Panicked(status, opts) ==
    /\ pc' = "panicked"
    /\ trace' = [NoTrace EXCEPT !.status = status]
    /\ prev' = NoTrace
    /\ options' = opts
    /\ memory' = memory

\* draw_viewer_contents (lib.rs:87-189): the entry assertions, the options
\* area, the lookup of the selected range, then the visible rows
DrawViewerContents ==
    /\ pc = "ready"
    /\ IF ~EntryChecksPass(address_ranges, write_function, read_only)
       THEN Panicked("entry_assert", options)
       ELSE \E options_ui \in OptionsUi(options, address_ranges) :
            LET opts == DrawOptionsArea(options, address_ranges, options_ui)
            IN  IF opts.selected_address_range \notin DOMAIN address_ranges
                THEN Panicked("unwrap_none", opts)
                ELSE IF opts.column_count = 0
                THEN Panicked("div_by_zero", opts)
                ELSE
                LET address_space == address_ranges[opts.selected_address_range]
                    max_lines == MaxLines(address_space, opts.column_count)
                IN  \E line_range \in LineRanges(max_lines) :
                    LET rows == Rows(address_space, opts, line_range, memory)
                    IN  \E ui \in IF options_ui = NoUi
                                  THEN {NoUi} \cup CellUi(rows)
                                  ELSE {options_ui} :
                        LET writes == WriteCalls(ui, read_only, write_function)
                            frame == [status |-> "done",
                                      options |-> opts,
                                      address_space |-> address_space,
                                      max_lines |-> max_lines,
                                      line_range |-> line_range,
                                      rows |-> rows,
                                      reads |-> FrameReads(rows),
                                      writes |-> writes,
                                      ui |-> ui]
                        IN  /\ pc' = "ready"
                            /\ options' = opts
                            /\ memory' = ApplyWrites(memory, writes)
                            /\ trace' = frame
                            /\ prev' = IF /\ trace.status = "done"
                                          /\ ui = NoUi
                                          /\ trace.options = opts
                                          /\ trace.address_space = address_space
                                          /\ trace.line_range = line_range
                                       THEN [trace EXCEPT !.ui = NoUi]
                                       ELSE NoTrace
    /\ pure' = FALSE
    /\ UNCHANGED <<window_name, write_function, address_ranges, read_only,
                   first_added>>

\* ---------------------------------------------------------------- builders
\* MemoryEditor::new (lib.rs:52-62)
Init ==
    /\ window_name = DefaultTitle
    /\ write_function = "None"
    /\ address_ranges = << >>
    /\ read_only = FALSE
    /\ options \in DefaultOptions
    /\ memory = MemoryImage
    /\ pc = "ready"
    /\ first_added = {}
    /\ pure = TRUE
    /\ trace = NoTrace
    /\ prev = NoTrace

\* with_window_title (lib.rs:255-258)
WithWindowTitle(title) ==
    /\ pc = "ready"
    /\ window_name' = title
    /\ trace' = NoTrace
    /\ prev' = NoTrace
    /\ UNCHANGED <<write_function, address_ranges, read_only, options, memory,
                   pc, first_added, pure>>

\* with_write_function (lib.rs:263-266)
WithWriteFunction ==
    /\ pc = "ready"
    /\ write_function' = "Some"
    /\ trace' = NoTrace
    /\ prev' = NoTrace
    /\ UNCHANGED <<window_name, address_ranges, read_only, options, memory,
                   pc, first_added, pure>>

\* the selection after an insertion: the first entry in key order
\* (lib.rs:278-280)
SelectedAfterInsert(ranges, selected) ==
    IF DOMAIN ranges # {} THEN FirstKey(ranges) ELSE selected

\* with_address_range (lib.rs:275-282)
WithAddressRange(range_name, address_range) ==
    /\ pc = "ready"
    /\ range_name \in DOMAIN address_ranges
       \/ Cardinality(DOMAIN address_ranges) < MaxRanges
    /\ LET ranges == Insert(address_ranges, range_name, address_range)
       IN  /\ address_ranges' = ranges
           /\ options' =
                [options EXCEPT
                    !.combo_box_enabled = Cardinality(DOMAIN ranges) > 1,
                    !.selected_address_range =
                        SelectedAfterInsert(ranges, @)]
    /\ first_added' = IF first_added = {} THEN {range_name} ELSE first_added
    /\ pure' = (pure /\ range_name \notin DOMAIN address_ranges)
    /\ trace' = NoTrace
    /\ prev' = NoTrace
    /\ UNCHANGED <<window_name, write_function, read_only, memory, pc>>

\* with_read_only (lib.rs:286-289)
WithReadOnly(ro) ==
    /\ pc = "ready"
    /\ read_only' = ro
    /\ trace' = NoTrace
    /\ prev' = NoTrace
    /\ UNCHANGED <<window_name, write_function, address_ranges, options,
                   memory, pc, first_added, pure>>

\* with_options (lib.rs:292-295)
WithOptions(bundle) ==
    /\ pc = "ready"
    /\ options' = bundle
    /\ pure' = FALSE
    /\ trace' = NoTrace
    /\ prev' = NoTrace
    /\ UNCHANGED <<window_name, write_function, address_ranges, read_only,
                   memory, pc, first_added>>

Next ==
    \/ \E title \in Titles : WithWindowTitle(title)
    \/ WithWriteFunction
    \/ \E n \in Names, r \in BuilderRanges : WithAddressRange(n, r)
    \/ \E ro \in BOOLEAN : WithReadOnly(ro)
    \/ \E bundle \in MemoryEditorOptions(BundleColumns) : WithOptions(bundle)
    \/ DrawViewerContents

Spec == Init /\ [][Next]_vars

\* ------------------------------------------------- geometry specification
\* An editor built by new(read).with_address_range("a", r).with_read_only(true)
\* with an options bundle of any accepted column count, then rendered.
InitGeometry ==
    /\ window_name = DefaultTitle
    /\ write_function = "None"
    /\ \E r \in GeometryRanges : address_ranges = [n \in {<<1>>} |-> r]
    /\ read_only = TRUE
    /\ options \in {o \in MemoryEditorOptions(GeometryColumns) :
                      /\ o.selected_address_range = <<1>>
                      /\ ~o.combo_box_enabled}
    /\ memory = MemoryImage
    /\ pc = "ready"
    /\ first_added = {<<1>>}
    /\ pure = FALSE
    /\ trace = NoTrace
    /\ prev = NoTrace

NextGeometry == DrawViewerContents

SpecGeometry == InitGeometry /\ [][NextGeometry]_vars

\* ------------------------------------------------------------------ claims
Selected == options.selected_address_range
Registered == DOMAIN address_ranges

\* C1: after with_address_range calls with distinct names only (no
\* with_options, no frame), the selected range is the name passed to the
\* first call.
C1_FirstAddedStaysSelected ==
    (pure /\ first_added # {}) => Selected \in first_added

\* C2: once a range was registered, the selected name is a key of the
\* registry after every builder call and every frame, and the lookup in
\* draw_viewer_contents never fails.
C2_SelectedIsRegistered ==
    /\ (Registered # {} /\ pc = "ready") => Selected \in Registered
    /\ trace.status # "unwrap_none"

\* C3: a render call aborts at entry, with no read and no option changed,
\* exactly when the registry is empty or neither read_only nor a write
\* function is set; builder calls never abort.
C3_EntryAbortExactly ==
    [][/\ trace'.status = "entry_assert" <=>
            /\ trace'.status # "none"
            /\ \/ Registered = {}
               \/ ~read_only /\ write_function = "None"
       /\ trace'.status = "entry_assert" =>
            /\ options' = options
            /\ memory' = memory
            /\ trace'.reads = << >>
       /\ trace'.status = "none" => pc' = "ready"]_vars
C3_Witness ==
    /\ trace.status = "entry_assert"
    /\ Registered # {}
    /\ ~read_only /\ write_function = "None"

\* the frame showed the last line of a range whose length is no multiple of
\* the column count, with more than one chunk of columns, after a full line
PartialLastRowShown ==
    /\ trace.status = "done"
    /\ trace.options.column_count > ChunkColumns
    /\ (trace.address_space.end - trace.address_space.start)
            % trace.options.column_count # 0
    /\ trace.max_lines >= 2
    /\ trace.line_range = <<trace.max_lines - 2, trace.max_lines>>

\* C4: every address passed to read_function in a frame lies in the selected
\* range, start <= address < end.
C4_ReadsInSelectedRange ==
    trace.status = "done" =>
        /\ Selected \in Registered
        /\ trace.address_space = address_ranges[Selected]
        /\ \A i \in 1..Len(trace.reads) :
            /\ address_ranges[Selected].start <= trace.reads[i]
            /\ trace.reads[i] < address_ranges[Selected].end
C4_Witness ==
    /\ PartialLastRowShown
    /\ trace.address_space.start > 0
    /\ \E i \in 1..Len(trace.reads) :
            trace.reads[i] = trace.address_space.end - 1

\* C5: with read_only set no frame calls write_function, whatever the user
\* does; a frame that wrote was rendered with read_only false.
C5_ReadOnlyNeverWrites ==
    trace.writes # << >> => ~read_only
C5_Witness ==
    /\ trace.status = "done"
    /\ read_only
    /\ trace.ui.kind = "edit"

\* C6: with read_only false and a write function set, a confirmed edit of
\* the cell at address a to value v makes exactly one call
\* write_function(memory, a, v) in that frame, and a read of a then yields v.
C6_EditWritesOnce ==
    (/\ trace.status = "done"
     /\ trace.ui.kind = "edit"
     /\ ~read_only
     /\ write_function = "Some") =>
        /\ trace.writes =
            <<[address |-> trace.ui.address, value |-> trace.ui.value]>>
        /\ read_function(memory, trace.ui.address) = trace.ui.value

\* C7: after any builder calls that registered a range, the picker flag is
\* set exactly when more than one range is registered, and a sole range is
\* the selected one.
C7_PickerIffSeveralRanges ==
    (Registered # {} /\ trace.status = "none") =>
        /\ options.combo_box_enabled <=> Cardinality(Registered) > 1
        /\ Cardinality(Registered) = 1 => Registered = {Selected}

\* the frame's range length, column count and line count, computed from the
\* range's bounds alone
FrameLength ==
    IF trace.address_space.end > trace.address_space.start
    THEN trace.address_space.end - trace.address_space.start ELSE 0
FrameColumns == trace.options.column_count
FrameRowCount == (FrameLength + FrameColumns - 1) \div FrameColumns

\* C8: the number of display rows is ceil(L / column_count); a row before
\* the last has column_count byte cells, the last row has
\* L - (row_count - 1) * column_count, at consecutive addresses.
C8_RowsAndCells ==
    trace.status = "done" =>
        /\ trace.max_lines = FrameRowCount
        /\ \A k \in 1..Len(trace.rows) :
            LET r == trace.line_range[1] + k - 1
                cells == trace.rows[k].hex
            IN  /\ Len(cells) =
                     IF r < FrameRowCount - 1 THEN FrameColumns
                     ELSE FrameLength - (FrameRowCount - 1) * FrameColumns
                /\ \A i \in 1..Len(cells) :
                     cells[i].address =
                        trace.address_space.start + r * FrameColumns + i - 1
C8_Witness ==
    /\ PartialLastRowShown
    /\ Len(trace.rows) = 2
    /\ Len(trace.rows[1].hex) = FrameColumns
    /\ Len(trace.rows[2].hex) < FrameColumns
    /\ Len(trace.rows[2].hex) > 0

\* the addresses of the selected range that lie on the frame's visible lines
FrameVisible ==
    {a \in trace.address_space.start..(trace.address_space.end - 1) :
        /\ trace.address_space.start + trace.line_range[1] * FrameColumns <= a
        /\ a < trace.address_space.start + trace.line_range[2] * FrameColumns}
ReadCount(reads, a) == Cardinality({i \in 1..Len(reads) : reads[i] = a})

\* C9 as stated: read_function is called exactly once for each visible
\* address of the range, whatever the flags, and a repeated frame makes the
\* same calls.
C9_ReadOncePerCell ==
    trace.status = "done" =>
        /\ \A a \in FrameVisible : ReadCount(trace.reads, a) = 1
        /\ \A i \in 1..Len(trace.reads) : trace.reads[i] \in FrameVisible
        /\ prev.status = "done" => prev.reads = trace.reads

\* C9 amended: read_function is called once for each visible hex cell and
\* once more for each cell of the ASCII sidebar, so once per visible address
\* with show_ascii_sidebar off and twice with it on; a repeated frame makes
\* the same calls.
C9_ReadOncePerRenderedCell ==
    trace.status = "done" =>
        /\ \A a \in FrameVisible :
            ReadCount(trace.reads, a) =
                IF trace.options.show_ascii_sidebar THEN 2 ELSE 1
        /\ \A i \in 1..Len(trace.reads) : trace.reads[i] \in FrameVisible
        /\ prev.status = "done" => prev.reads = trace.reads
C9_Witness ==
    /\ PartialLastRowShown
    /\ trace.options.show_ascii_sidebar
    /\ prev.status = "done"
    /\ Len(trace.reads) = 2 * Cardinality(FrameVisible)

\* ceil(log16(n)) for n >= 1, and the number of hex digits of n
CeilLog16(n) == CHOOSE d \in 0..8 : 16^d >= n /\ (d = 0 \/ 16^(d - 1) < n)
HexDigitCount(n) == CHOOSE d \in 1..8 : 16^d > n /\ (d = 1 \/ 16^(d - 1) <= n)
LabelDigits(row) == Len(row.label) - 2

\* C10 as stated: every address label of a range has ceil(log16(range.end))
\* hex digits.
C10_LabelDigitsCeilLog16 ==
    trace.status = "done" =>
        \A k \in 1..Len(trace.rows) :
            LabelDigits(trace.rows[k]) = CeilLog16(trace.address_space.end)

\* C10 amended: every address label of a range is "0x" followed by the same
\* number of hex digits, the number of hex digits of range.end itself
\* (floor(log16(range.end)) + 1: 2 digits for the range [0, 16)).
C10_LabelDigitsOfEnd ==
    trace.status = "done" =>
        \A k \in 1..Len(trace.rows) :
            /\ SubSeq(trace.rows[k].label, 1, 2) = <<"0", "x">>
            /\ LabelDigits(trace.rows[k]) =
                    HexDigitCount(trace.address_space.end)
C10_Witness ==
    /\ trace.status = "done"
    /\ trace.address_space.end = 16
    /\ Len(trace.rows) = 2
    /\ trace.rows[1].label = <<"0", "x", "0", "0">>

====
